---- MODULE Spec2Model ----
(***************************************************************************)
(* word-puzzler: the three subcommands of main.rs (mkdict, search,         *)
(* permute), Dictionary::build / find_matches of dictionary.rs and the     *)
(* negative-log probabilities of probability.rs.                           *)
(*                                                                         *)
(* Strings are sequences of one-character strings.  A stored f64 that the  *)
(* search adds up is a natural number (a fixed-point stored value); the    *)
(* quotient that build stores is kept exact as the pair num/den.           *)
(***************************************************************************)
EXTENDS Integers, Sequences, FiniteSets, TLC

VARIABLES
    cmd,             \* the subcommand main dispatches to
    pc,              \* position inside the running subcommand
    result,          \* "running", "ok", or the error the command returned
    counts,          \* build: HashMap word -> count
    total_count,     \* build: u64 sum of the counts
    smallest_count,  \* build: smallest count seen (u64::MAX before any)
    count_words,     \* build: the words of the count lines read so far, as written
    builder,         \* build: the (key, value) pairs inserted in the MapBuilder
    words_read,      \* build: number of vocabulary lines read
    dict,            \* loaded Dictionary: key -> stored value
    fragments,       \* permute: opt.fragments; search: <<opt.regex>>
    perms,           \* permute: the permutations the iterator of the for loop has left
    seen_candidates, \* permute: BTreeSet of the candidates searched
    candidate,       \* permute: the candidate being searched
    so_far,          \* permute: the stack of chosen (prob, word) pairs
    stack,           \* break_into_words: the activation records, innermost last
    matches,         \* permute: the segmentations recorded
    mark,            \* permute: Len(matches) when the current candidate's search began
    trace_log,       \* permute: the candidates logged at trace!("candidate: ..")
    output           \* what the command printed

vars == <<cmd, pc, result, counts, total_count, smallest_count, count_words,
          builder, words_read, dict, fragments, perms, seen_candidates,
          candidate, so_far, stack, matches, mark, trace_log, output>>

buildVars == <<counts, total_count, smallest_count, count_words, builder, words_read>>
queryVars == <<dict, fragments, perms, seen_candidates, candidate, so_far,
               stack, matches, mark, trace_log, output>>

----------------------------------------------------------------------------
(* Bounds of the model *)

MaxFragments == 2     \* fragments on the permute command line
MaxCountLines == 2    \* lines of the counts file
MaxWordLines == 2     \* lines of the vocabulary file
U64Max == 3           \* stands for u64::MAX: counts are kept in a narrow unsigned width

----------------------------------------------------------------------------
(* Strings *)

\* byte values of the characters used
Ord == [c \in {"\r", " ", ".", "A", "B", "[", "a", "b"} |->
          CASE c = "\r" -> 13 [] c = " " -> 32 [] c = "." -> 46
            [] c = "A" -> 65 [] c = "B" -> 66 [] c = "[" -> 91
            [] c = "a" -> 97 [] c = "b" -> 98]

LowerCharIdentity(c) == c

LowerChar(c) == CASE c = "A" -> "a" [] c = "B" -> "b" [] OTHER -> c

to_ascii_lowercase(s) == [i \in 1..Len(s) |-> LowerChar(s[i])]

\* byte-wise lexicographic order of two strings (the key order of fst::Map)
StrLess(u, v) ==
    \E k \in 1..(Len(u) + 1) :
        /\ \A j \in 1..(k - 1) : j <= Len(v) /\ u[j] = v[j]
        /\ \/ k = Len(u) + 1 /\ Len(v) >= k
           \/ k <= Len(u) /\ k <= Len(v) /\ Ord[u[k]] < Ord[v[k]]

RECURSIVE trim_end_matches(_)
trim_end_matches(s) ==
    IF Len(s) > 0 /\ s[Len(s)] = "\r"
    THEN trim_end_matches(SubSeq(s, 1, Len(s) - 1))
    ELSE s

----------------------------------------------------------------------------
(* probability.rs *)

always == 0

Mul(a, b) == a + b

\* Prob::from_fraction: the stored value is -ln(num/denom), kept symbolically
from_fraction(num, denom) == [neglog |-> TRUE, num |-> num, den |-> denom]

\* the f64 quotient num as f64 / denom as f64, kept exact
DivF64(num, denom) == [neglog |-> FALSE, num |-> num, den |-> denom]

----------------------------------------------------------------------------
(* Dictionary::build *)

CountWords == {<<"a">>, <<"A">>, <<"b">>}

\* a line of the counts file: one COUNT_RE does not match, or word and digits;
\* the digits U64Max + 1 are a number that does not fit a u64
CountLines ==
    {[ok |-> FALSE, word |-> <<>>, count |-> 0]} \cup
    [ok : {TRUE}, word : CountWords, count : 0..(U64Max + 1)]

VocabLines == {<<>>, <<"a">>, <<"A">>, <<"b">>, <<"b", "\r">>}

Min(a, b) == IF a < b THEN a ELSE b

BuildFail(msg) ==
    /\ result' = msg
    /\ pc' = "done"

\* one iteration of the loop over the count lines (dictionary.rs 42-67)
ReadCountLine ==
    /\ cmd = "mkdict" /\ pc = "counts"
    /\ Len(count_words) < MaxCountLines
    /\ \E line \in CountLines :
         LET word == to_ascii_lowercase(line.word) IN
         /\ count_words' = Append(count_words, line.word)
         /\ IF ~line.ok
            THEN /\ BuildFail("expected word count")
                 /\ UNCHANGED <<counts, total_count, smallest_count>>
            ELSE IF line.count > U64Max
            THEN /\ BuildFail("could not parse count")
                 /\ UNCHANGED <<counts, total_count, smallest_count>>
            ELSE IF word \in DOMAIN counts
            THEN /\ counts' = [counts EXCEPT ![word] = line.count]
                 /\ BuildFail("duplicate word")
                 /\ UNCHANGED <<total_count, smallest_count>>
            ELSE IF total_count + line.count > U64Max
            THEN /\ counts' = [w \in DOMAIN counts \cup {word} |->
                                 IF w = word THEN line.count ELSE counts[w]]
                 /\ BuildFail("word count overflows u64")
                 /\ UNCHANGED <<total_count, smallest_count>>
            ELSE /\ counts' = [w \in DOMAIN counts \cup {word} |->
                                 IF w = word THEN line.count ELSE counts[w]]
                 /\ total_count' = total_count + line.count
                 /\ smallest_count' = Min(line.count, smallest_count)
                 /\ UNCHANGED <<pc, result>>
    /\ UNCHANGED <<cmd, builder, words_read>>
    /\ UNCHANGED queryVars

\* end of the counts file (dictionary.rs 68-84)
EndCounts ==
    /\ cmd = "mkdict" /\ pc = "counts"
    /\ smallest_count' = IF smallest_count = U64Max THEN 1 ELSE smallest_count
    /\ pc' = "words"
    /\ UNCHANGED <<cmd, result, counts, total_count, count_words, builder, words_read>>
    /\ UNCHANGED queryVars

\* the count build divides for a vocabulary word (dictionary.rs 94)
EffectiveCount(word) ==
    IF word \in DOMAIN counts THEN counts[word] ELSE smallest_count

\* one iteration of the loop over the vocabulary lines (dictionary.rs 87-100);
\* MapBuilder::insert refuses a key that is not above the last one
AddWord ==
    /\ cmd = "mkdict" /\ pc = "words"
    /\ words_read < MaxWordLines
    /\ \E raw \in VocabLines :
         LET line == to_ascii_lowercase(trim_end_matches(raw))
             prob == DivF64(EffectiveCount(line), total_count)
         IN  /\ words_read' = words_read + 1
             /\ IF builder # <<>> /\ ~StrLess(builder[Len(builder)].key, line)
                THEN /\ BuildFail("could not write")
                     /\ UNCHANGED builder
                ELSE /\ builder' = Append(builder, [key |-> line, value |-> prob])
                     /\ UNCHANGED <<pc, result>>
    /\ UNCHANGED <<cmd, counts, total_count, smallest_count, count_words>>
    /\ UNCHANGED queryVars

\* end of the vocabulary file: builder.finish() (dictionary.rs 103-106)
FinishBuild ==
    /\ cmd = "mkdict" /\ pc = "words"
    /\ result' = "ok"
    /\ pc' = "done"
    /\ UNCHANGED <<cmd, counts, total_count, smallest_count, count_words,
                   builder, words_read>>
    /\ UNCHANGED queryVars

----------------------------------------------------------------------------
(* Dictionary::find_matches *)

DictWords == {<<>>, <<"a">>, <<"b">>, <<"a", "b">>}

Probs == {0, 1}

\* the dictionaries Dictionary::load can return
Dictionaries == UNION {[S -> Probs] : S \in SUBSET DictWords}

\* dense::Builder::build: a pattern of letters and dots compiles, an unclosed
\* bracket is a syntax error
Compiles(re) == \A i \in 1..Len(re) : re[i] # "["

\* the anchored automaton of a pattern of letters and dots accepts a key
Accepts(re, key) ==
    /\ Len(key) = Len(re)
    /\ \A i \in 1..Len(re) : re[i] = "." \/ re[i] = key[i]

RECURSIVE InKeyOrder(_)
InKeyOrder(S) ==
    IF S = {} THEN <<>>
    ELSE LET first == CHOOSE u \in S : \A v \in S \ {u} : StrLess(u, v)
         IN  <<first>> \o InKeyOrder(S \ {first})

find_matches_none_is_error(regex) ==
    LET regex_lower == to_ascii_lowercase(regex)
        keys == InKeyOrder({key \in DOMAIN dict : Accepts(regex_lower, key)})
    IN  [ok |-> Compiles(regex_lower) /\ keys # <<>>,
         list |-> [n \in 1..Len(keys) |-> [prob |-> dict[keys[n]], word |-> keys[n]]]]

find_matches(regex) ==
    LET regex_lower == to_ascii_lowercase(regex)
        keys == InKeyOrder({key \in DOMAIN dict : Accepts(regex_lower, key)})
    IN  IF ~Compiles(regex_lower)
        THEN [ok |-> FALSE, list |-> <<>>]
        ELSE [ok |-> TRUE,
              list |-> [n \in 1..Len(keys) |->
                          [prob |-> dict[keys[n]], word |-> keys[n]]]]

----------------------------------------------------------------------------
(* Dist::sort_by_probability *)

KeyBeforeDescending(a, b) == a >= b

\* the order sort_by_key keeps two keys in
KeyBefore(a, b) == a <= b

\* sort_by_key is stable: an element comes after the elements whose key must
\* come before its own and after the earlier elements of equal key
SortedIndex(v, j) ==
    Cardinality({m \in 1..Len(v) :
        \/ KeyBefore(v[m].prob, v[j].prob) /\ ~KeyBefore(v[j].prob, v[m].prob)
        \/ m < j /\ KeyBefore(v[m].prob, v[j].prob) /\ KeyBefore(v[j].prob, v[m].prob)}) + 1

sort_by_probability(v) ==
    [r \in 1..Len(v) |-> v[CHOOSE j \in 1..Len(v) : SortedIndex(v, j) = r]]

----------------------------------------------------------------------------
(* search_cmd *)

FragmentChoices == {<<"a">>, <<"B">>, <<".">>, <<"a", "b">>, <<"[">>}

SearchCmd ==
    /\ cmd = "search" /\ pc = "search_cmd"
    /\ LET found == find_matches(fragments[1]) IN
         IF found.ok
         THEN /\ output' = found.list
              /\ result' = "ok"
         ELSE /\ result' = "pattern error"
              /\ UNCHANGED output
    /\ pc' = "done"
    /\ UNCHANGED <<cmd, dict, fragments, perms, seen_candidates, candidate,
                   so_far, stack, matches, mark, trace_log>>
    /\ UNCHANGED buildVars

----------------------------------------------------------------------------
(* permute_cmd *)

Remove(s, i) == SubSeq(s, 1, i - 1) \o SubSeq(s, i + 1, Len(s))

\* itertools permutations(n) of n items: index sequences in lexicographic order
RECURSIVE PermsOf(_)
RECURSIVE PermsFrom(_, _)
PermsFrom(rem, i) ==
    IF i > Len(rem) THEN <<>>
    ELSE LET tails == PermsOf(Remove(rem, i))
         IN  [n \in 1..Len(tails) |-> <<rem[i]>> \o tails[n]] \o PermsFrom(rem, i + 1)
PermsOf(rem) == IF rem = <<>> THEN << <<>> >> ELSE PermsFrom(rem, 1)

permutations(n) == PermsOf([i \in 1..n |-> i])

RECURSIVE concat(_)
concat(strs) == IF strs = <<>> THEN <<>> ELSE Head(strs) \o concat(Tail(strs))

CandidateOf(perm) == concat([n \in 1..Len(perm) |-> fragments[perm[n]]])

SeenNever(c) == FALSE

\* seen_candidates.contains(&candidate) (main.rs 95)
Seen(c) == c \in seen_candidates

\* the activation record of a call break_into_words(dict, so_far, pattern, matches);
\* entry is so_far as the call received it
NewFrame(pattern, entry) ==
    [pattern |-> pattern, pc |-> "enter", i |-> 0, word_matches |-> <<>>, k |-> 0,
     entry |-> entry]

\* a permutation whose concatenation was searched already (main.rs 94-97)
SkipSeen ==
    /\ cmd = "permute" /\ pc = "perm"
    /\ perms # <<>>
    /\ Seen(CandidateOf(Head(perms)))
    /\ perms' = Tail(perms)
    /\ UNCHANGED <<cmd, pc, result, dict, fragments, seen_candidates, candidate,
                   so_far, stack, matches, mark, trace_log, output>>
    /\ UNCHANGED buildVars

\* a new candidate: break_into_words is called on it (main.rs 94-101)
StartSearch ==
    /\ cmd = "permute" /\ pc = "perm"
    /\ perms # <<>>
    /\ perms' = Tail(perms)
    /\ LET c == CandidateOf(Head(perms)) IN
         /\ ~Seen(c)
         /\ trace_log' = Append(trace_log, c)
         /\ seen_candidates' = seen_candidates \cup {c}
         /\ candidate' = c
         /\ so_far' = <<>>
         /\ stack' = <<NewFrame(c, <<>>)>>
    /\ mark' = Len(matches)
    /\ pc' = "search"
    /\ UNCHANGED <<cmd, result, dict, fragments, matches, output>>
    /\ UNCHANGED buildVars

\* after the loop: sort and print (main.rs 103-106)
SortAndPrint ==
    /\ cmd = "permute" /\ pc = "perm"
    /\ perms = <<>>
    /\ output' = sort_by_probability(matches)
    /\ result' = "ok"
    /\ pc' = "done"
    /\ UNCHANGED <<cmd, dict, fragments, perms, seen_candidates, candidate,
                   so_far, stack, matches, mark, trace_log>>
    /\ UNCHANGED buildVars

----------------------------------------------------------------------------
(* break_into_words *)

Top == stack[Len(stack)]

SetTop(f) == [stack EXCEPT ![Len(stack)] = f]

\* words.push(' ') between two words, words.push_str(w) (main.rs 117-124)
RECURSIVE JoinWords(_)
JoinWords(pairs) ==
    IF pairs = <<>> THEN <<>>
    ELSE LET before == JoinWords(SubSeq(pairs, 1, Len(pairs) - 1))
         IN  (IF Len(before) > 0 THEN before \o <<" ">> ELSE before)
                \o pairs[Len(pairs)].word

JointProbLastOnly(pairs) ==
    IF pairs = <<>> THEN always ELSE pairs[Len(pairs)].prob

\* prob = prob * *p over so_far, from Prob::always() (main.rs 116-119)
RECURSIVE JointProb(_)
JointProb(pairs) ==
    IF pairs = <<>> THEN always
    ELSE Mul(JointProb(SubSeq(pairs, 1, Len(pairs) - 1)), pairs[Len(pairs)].prob)

RestWhole(pattern, i) == pattern

\* &remaining_pattern[i..] (main.rs 130)
Rest(pattern, i) == SubSeq(pattern, i + 1, Len(pattern))

\* &remaining_pattern[..i] (main.rs 129)
WordPat(pattern, i) == SubSeq(pattern, 1, i)

PopNothing(s) == s

\* so_far.pop() (main.rs 137)
Pop(s) == SubSeq(s, 1, Len(s) - 1)

FirstSplitShort(pattern) == IF Len(pattern) > 1 THEN Len(pattern) - 1 ELSE Len(pattern)

\* the first i of (1..=remaining_pattern.len()).rev() (main.rs 128)
FirstSplit(pattern) == Len(pattern)

Searching == cmd = "permute" /\ pc = "search" /\ stack # <<>>

\* remaining_pattern is empty: record the segmentation (main.rs 115-126)
BaseCase ==
    /\ Searching
    /\ Top.pc = "enter" /\ Len(Top.pattern) = 0
    /\ matches' = Append(matches, [prob |-> JointProb(so_far), words |-> JoinWords(so_far)])
    /\ stack' = SetTop([Top EXCEPT !.pc = "ret"])
    /\ UNCHANGED <<cmd, pc, result, dict, fragments, perms, seen_candidates,
                   candidate, so_far, mark, trace_log, output>>
    /\ UNCHANGED buildVars

\* remaining_pattern is not empty: enter the loop over the split points (main.rs 128)
BeginSplits ==
    /\ Searching
    /\ Top.pc = "enter" /\ Len(Top.pattern) > 0
    /\ stack' = SetTop([Top EXCEPT !.pc = "split", !.i = FirstSplit(Top.pattern)])
    /\ UNCHANGED <<cmd, pc, result, dict, fragments, perms, seen_candidates,
                   candidate, so_far, matches, mark, trace_log, output>>
    /\ UNCHANGED buildVars

\* dict.find_matches(&word_pat)? for the split point i (main.rs 129-132)
TryPrefix ==
    /\ Searching
    /\ Top.pc = "split" /\ Top.i >= 1
    /\ LET found == find_matches(WordPat(Top.pattern, Top.i)) IN
         IF found.ok
         THEN /\ stack' = SetTop([Top EXCEPT !.pc = "iter", !.k = 1,
                                             !.word_matches = found.list])
              /\ UNCHANGED <<pc, result>>
         ELSE /\ stack' = <<>>
              /\ result' = "pattern error"
              /\ pc' = "done"
    /\ UNCHANGED <<cmd, dict, fragments, perms, seen_candidates,
                   candidate, so_far, matches, mark, trace_log, output>>
    /\ UNCHANGED buildVars

\* the next word of word_matches: push it and recurse on the rest (main.rs 133-136)
Recurse ==
    /\ Searching
    /\ Top.pc = "iter" /\ Top.k <= Len(Top.word_matches)
    /\ so_far' = Append(so_far, Top.word_matches[Top.k])
    /\ stack' = Append(stack, NewFrame(Rest(Top.pattern, Top.i), so_far'))
    /\ UNCHANGED <<cmd, pc, result, dict, fragments, perms, seen_candidates,
                   candidate, matches, mark, trace_log, output>>
    /\ UNCHANGED buildVars

\* word_matches is used up: the next shorter prefix (main.rs 128, 133)
NextSplit ==
    /\ Searching
    /\ Top.pc = "iter" /\ Top.k > Len(Top.word_matches)
    /\ stack' = SetTop([Top EXCEPT !.pc = "split", !.i = Top.i - 1])
    /\ UNCHANGED <<cmd, pc, result, dict, fragments, perms, seen_candidates,
                   candidate, so_far, matches, mark, trace_log, output>>
    /\ UNCHANGED buildVars

\* every split point was tried: Ok(()) (main.rs 139-141)
EndSplits ==
    /\ Searching
    /\ Top.pc = "split" /\ Top.i < 1
    /\ stack' = SetTop([Top EXCEPT !.pc = "ret"])
    /\ UNCHANGED <<cmd, pc, result, dict, fragments, perms, seen_candidates,
                   candidate, so_far, matches, mark, trace_log, output>>
    /\ UNCHANGED buildVars

\* a recursive call returns Ok: so_far.pop(), the next word (main.rs 136-138)
ReturnToCaller ==
    /\ Searching
    /\ Top.pc = "ret" /\ Len(stack) > 1
    /\ so_far' = Pop(so_far)
    /\ LET caller == stack[Len(stack) - 1] IN
         stack' = [SubSeq(stack, 1, Len(stack) - 1) EXCEPT
                     ![Len(stack) - 1] = [caller EXCEPT !.k = caller.k + 1]]
    /\ UNCHANGED <<cmd, pc, result, dict, fragments, perms, seen_candidates,
                   candidate, matches, mark, trace_log, output>>
    /\ UNCHANGED buildVars

\* the call of permute_cmd returns Ok: the next permutation (main.rs 101, 88)
ReturnToPermute ==
    /\ Searching
    /\ Top.pc = "ret" /\ Len(stack) = 1
    /\ stack' = <<>>
    /\ pc' = "perm"
    /\ UNCHANGED <<cmd, result, dict, fragments, perms, seen_candidates,
                   candidate, so_far, matches, mark, trace_log, output>>
    /\ UNCHANGED buildVars

----------------------------------------------------------------------------
(* main *)

FragmentLists == UNION {[1..n -> FragmentChoices] : n \in 0..MaxFragments}

InitBuildVars ==
    /\ counts = <<>>
    /\ total_count = 0
    /\ smallest_count = U64Max
    /\ count_words = <<>>
    /\ builder = <<>>
    /\ words_read = 0

InitQueryVars ==
    /\ seen_candidates = {}
    /\ candidate = <<>>
    /\ so_far = <<>>
    /\ stack = <<>>
    /\ matches = <<>>
    /\ mark = 0
    /\ trace_log = <<>>
    /\ output = <<>>

Init ==
    /\ result = "running"
    /\ InitBuildVars
    /\ InitQueryVars
    /\ \/ /\ cmd = "mkdict" /\ pc = "counts"
          /\ dict = <<>> /\ fragments = <<>>
          /\ perms = <<>>
       \/ /\ cmd = "search" /\ pc = "search_cmd"
          /\ dict \in Dictionaries
          /\ fragments \in [1..1 -> FragmentChoices]
          /\ perms = <<>>
       \/ /\ cmd = "permute" /\ pc = "perm"
          /\ dict \in Dictionaries
          /\ fragments \in FragmentLists
          /\ perms = permutations(Len(fragments))

Next ==
    \/ ReadCountLine
    \/ EndCounts
    \/ AddWord
    \/ FinishBuild
    \/ SearchCmd
    \/ SkipSeen
    \/ StartSearch
    \/ SortAndPrint
    \/ BaseCase
    \/ BeginSplits
    \/ TryPrefix
    \/ Recurse
    \/ NextSplit
    \/ EndSplits
    \/ ReturnToCaller
    \/ ReturnToPermute

Spec == Init /\ [][Next]_vars

\* the runs over every set of dictionary keys, all of one stored value: the
\* stored values are summed and sorted, and no step of a command branches on them
InitOneStoredValue ==
    /\ Init
    /\ \A w \in DOMAIN dict : dict[w] = 0

\* main runs its command step after step until the command returns
FairSpec == InitOneStoredValue /\ [][Next]_vars /\ WF_vars(Next)

----------------------------------------------------------------------------
(* Vocabulary of the properties *)

Letters == {"a", "b", "A", "B"}

\* a string of letters and '.' wildcards
Plain(s) == \A i \in 1..Len(s) : s[i] \in Letters \cup {"."}

\* a pattern character matches a key character, case folded as the spec states
CharMatches(c, d) ==
    \/ c = "."
    \/ c = d
    \/ c = "A" /\ d = "a"
    \/ c = "B" /\ d = "b"

\* the words of a recorded entry, cut at the spaces
RECURSIVE SplitWords(_)
SplitWords(s) ==
    IF s = <<>> THEN <<>>
    ELSE LET stops == {i \in 1..Len(s) : s[i] = " "}
             cut == IF stops = {} THEN Len(s) + 1
                    ELSE CHOOSE i \in stops : \A j \in stops : i <= j
         IN  <<SubSeq(s, 1, cut - 1)>> \o
             (IF cut > Len(s) THEN <<>> ELSE SplitWords(SubSeq(s, cut + 1, Len(s))))

RECURSIVE Spaced(_)
Spaced(ws) ==
    IF ws = <<>> THEN <<>>
    ELSE IF Len(ws) = 1 THEN ws[1]
    ELSE ws[1] \o <<" ">> \o Spaced(Tail(ws))

RECURSIVE SumLen(_)
SumLen(ws) == IF ws = <<>> THEN 0 ELSE Len(Head(ws)) + SumLen(Tail(ws))

RECURSIVE SumStored(_)
SumStored(ws) == IF ws = <<>> THEN 0 ELSE dict[Head(ws)] + SumStored(Tail(ws))

\* ws is a complete segmentation of cand: a partition of cand into dictionary words
IsSegmentation(ws, cand) ==
    /\ \A n \in 1..Len(ws) : ws[n] \in DOMAIN dict /\ Len(ws[n]) > 0
    /\ SumLen(ws) = Len(cand)
    /\ LET joined == concat(ws) IN
         \A i \in 1..Len(cand) : CharMatches(cand[i], joined[i])

Segmentations(cand) ==
    LET words == {w \in DOMAIN dict : Len(w) > 0} IN
    {ws \in UNION {[1..n -> words] : n \in 0..Len(cand)} : IsSegmentation(ws, cand)}

\* the entries recorded since the search of the current candidate began
Recorded == SubSeq(matches, mark + 1, Len(matches))

\* the outermost call of break_into_words is about to return Ok
SearchReturned == Searching /\ Len(stack) = 1 /\ Top.pc = "ret"

\* the concatenations of the permutations of the fragments
Concatenations ==
    LET n == Len(fragments) IN
    {concat([k \in 1..n |-> fragments[p[k]]]) :
        p \in {f \in [1..n -> 1..n] : \A x, y \in 1..n : f[x] = f[y] => x = y}}

Occurrences(seq, e) == Cardinality({i \in 1..Len(seq) : seq[i] = e})

----------------------------------------------------------------------------
(* C1: started with an empty so_far on a candidate of letters and dots,      *)
(* break_into_words has recorded, when it returns, exactly the complete      *)
(* segmentations of the candidate: every recorded entry is a sequence of     *)
(* dictionary words whose lengths sum to the candidate length and whose      *)
(* concatenation matches the candidate position by position, and every such  *)
(* segmentation has been recorded, once.                                     *)
C1_ExactSegmentations ==
    (SearchReturned /\ Plain(candidate)) =>
        /\ \A n \in 1..Len(Recorded) :
             IsSegmentation(SplitWords(Recorded[n].words), candidate)
        /\ {Recorded[n].words : n \in 1..Len(Recorded)}
             = {Spaced(ws) : ws \in Segmentations(candidate)}
        /\ Len(Recorded) = Cardinality(Segmentations(candidate))

C1_Witness ==
    /\ SearchReturned
    /\ Plain(candidate)
    /\ \E i \in 1..Len(candidate) : candidate[i] = "."
    /\ \E i \in 1..Len(candidate) : candidate[i] = "B"
    /\ Len(Recorded) >= 2
    /\ \E n \in 1..Len(Recorded) : Len(SplitWords(Recorded[n].words)) >= 2

\* break_into_words has just been called by permute_cmd
SearchCalled == Searching /\ Len(stack) = 1 /\ Top.pc = "enter"

(* C2: each distinct concatenation of a permutation of the fragments is      *)
(* passed to break_into_words at most once, only such concatenations are     *)
(* searched, and when permute_cmd completes every one of them was searched   *)
(* exactly once.                                                             *)
C2_EachCandidateOnce ==
    (cmd = "permute" /\ (SearchCalled \/ pc = "done")) =>
        /\ \A i, j \in 1..Len(trace_log) : trace_log[i] = trace_log[j] => i = j
        /\ \A i \in 1..Len(trace_log) : trace_log[i] \in Concatenations
        /\ result = "ok" =>
             \A c \in Concatenations : Occurrences(trace_log, c) = 1

C2_Witness ==
    /\ cmd = "permute" /\ result = "ok"
    /\ fragments = << <<"a", "b">>, <<"a", "b">> >>
    /\ trace_log = << <<"a", "b", "a", "b">> >>

(* C3: every segmentation break_into_words has recorded when it returns,     *)
(* and every one printed, carries the sum of the stored values of exactly    *)
(* its words, and always() is the identity of the combination.               *)
C3_ScoreIsSum ==
    /\ \A p \in Probs : Mul(always, p) = p /\ Mul(p, always) = p
    /\ SearchReturned =>
         \A n \in 1..Len(Recorded) :
            Recorded[n].prob = SumStored(SplitWords(Recorded[n].words))
    /\ (cmd = "permute" /\ pc = "done" /\ result = "ok") =>
         \A n \in 1..Len(output) :
            output[n].prob = SumStored(SplitWords(output[n].words))

C3_Witness ==
    /\ SearchReturned
    /\ \E n \in 1..Len(Recorded) :
         LET ws == SplitWords(Recorded[n].words) IN
         /\ Len(ws) = 2
         /\ dict[ws[1]] = 1 /\ dict[ws[2]] = 1
         /\ Recorded[n].prob = 2

\* x < y for two stored values over non-zero denominators: a quotient compares
\* as a rational, its negative logarithm the other way round
StoredLess(x, y) ==
    IF x.neglog /\ y.neglog
    THEN x.num * y.den > y.num * x.den
    ELSE x.num * y.den < y.num * x.den

\* the count the build uses for an emitted word: its table count, or the
\* smallest observed count when the table does not have it
CountOf(w) == IF w \in DOMAIN counts THEN counts[w] ELSE smallest_count

BuildSucceeded == cmd = "mkdict" /\ pc = "done" /\ result = "ok"

(* C4: for words w1, w2 emitted by one successful build with                 *)
(* count(w1) > count(w2), the value stored for w1 is strictly less than the  *)
(* value stored for w2.                                                      *)
C4_MoreFrequentStoredLess ==
    BuildSucceeded =>
        \A m, n \in 1..Len(builder) :
            CountOf(builder[m].key) > CountOf(builder[n].key)
                => StoredLess(builder[m].value, builder[n].value)

(* C5: every word emitted by a successful build has a strictly positive,     *)
(* finite probability: its effective count is > 0 and the total count it is  *)
(* divided by is > 0.                                                        *)
C5_PositiveFiniteProbability ==
    BuildSucceeded =>
        \A n \in 1..Len(builder) :
            builder[n].value.num > 0 /\ builder[n].value.den > 0

\* two lines read from the counts file name the same word up to ASCII case
SameWord(u, v) ==
    /\ Len(u) = Len(v)
    /\ \A i \in 1..Len(u) :
         \/ u[i] = v[i]
         \/ {u[i], v[i]} = {"a", "A"}
         \/ {u[i], v[i]} = {"b", "B"}

DuplicateRead ==
    \E m, n \in 1..Len(count_words) :
        m # n /\ count_words[m] # <<>> /\ SameWord(count_words[m], count_words[n])

(* C6: once two lines of the counts file name the same word after ASCII      *)
(* lower-casing, build has failed with an error and emits no dictionary      *)
(* entry, whatever the counts and wherever the lines sit.                    *)
C6_DuplicateWordFails ==
    (cmd = "mkdict" /\ DuplicateRead) =>
        /\ pc = "done"
        /\ result \notin {"running", "ok"}
        /\ builder = <<>>

C6_Witness ==
    /\ cmd = "mkdict" /\ pc = "done"
    /\ result = "duplicate word"
    /\ count_words[1] = <<"A">>
    /\ count_words[Len(count_words)] = <<"a">>

NonDecreasing(seq) ==
    \A m, n \in 1..Len(seq) : m < n => seq[m].prob <= seq[n].prob

(* C7: what permute_cmd prints is sort_by_probability of the combined list:  *)
(* a permutation of the recorded segmentations whose stored values are       *)
(* non-decreasing from first to last.                                        *)
C7_SortedPermutation ==
    (cmd = "permute" /\ pc = "done" /\ result = "ok") =>
        /\ Len(output) = Len(matches)
        /\ \A n \in 1..Len(matches) :
             Occurrences(output, matches[n]) = Occurrences(matches, matches[n])
        /\ NonDecreasing(output)

C7_Witness ==
    /\ cmd = "permute" /\ pc = "done" /\ result = "ok"
    /\ Len(output) >= 3
    /\ ~NonDecreasing(matches)
    /\ \E m, n \in 1..Len(output) : m # n /\ output[m].prob = output[n].prob
    /\ output[1].prob < output[Len(output)].prob

PlainFragments == \A n \in 1..Len(fragments) : Plain(fragments[n])

\* some sequence of dictionary words covers some candidate of the fragments
Covered ==
    \E c \in Concatenations :
        LET words == {w \in DOMAIN dict : Len(w) > 0} IN
        \E n \in 0..Len(c) : \E ws \in [1..n -> words] : IsSegmentation(ws, c)

(* C8: with fragments of letters and dots that no sequence of dictionary     *)
(* words covers, the permute search ends Ok with an empty result; a          *)
(* find_matches call that matches no key returns Ok with an empty list, in   *)
(* the search and in search_cmd alike.                                       *)
C8_NoCoverIsEmptyNotError ==
    /\ (cmd = "permute" /\ PlainFragments /\ pc = "done"
           /\ (result # "ok" \/ output # <<>> \/ matches # <<>>)) => Covered
    /\ (cmd = "permute" /\ PlainFragments) => result \in {"running", "ok"}
    /\ (Searching /\ Top.pc = "iter" /\ Plain(candidate)) =>
          (Top.word_matches = <<>> <=>
             \A key \in DOMAIN dict :
                 \/ Len(key) # Top.i
                 \/ \E i \in 1..Top.i : ~CharMatches(Top.pattern[i], key[i]))
    /\ (cmd = "search" /\ pc = "done" /\ Plain(fragments[1])) =>
          /\ result = "ok"
          /\ output = <<>> <=>
               \A key \in DOMAIN dict :
                   \/ Len(key) # Len(fragments[1])
                   \/ \E i \in 1..Len(key) : ~CharMatches(fragments[1][i], key[i])

C8_Witness ==
    /\ cmd = "permute" /\ pc = "done" /\ result = "ok"
    /\ output = <<>>
    /\ Len(fragments) = 2 /\ PlainFragments
    /\ Len(trace_log) = 2
    /\ \E w \in DOMAIN dict : Len(w) = 1
    /\ \E w \in DOMAIN dict : Len(w) = 2

\* the recursion depth never exceeds the candidate length plus one: a recursive
\* call is made on a strictly shorter pattern, each chosen word consumes at
\* least one character, so_far never holds more words than the candidate has
\* characters
DepthBounded ==
    Searching =>
        /\ Len(stack) <= Len(candidate) + 1
        /\ Len(so_far) <= Len(candidate)
        /\ \A d \in 1..(Len(stack) - 1) :
             /\ Len(stack[d + 1].pattern) < Len(stack[d].pattern)
             /\ Len(so_far[d].word) >= 1
             /\ stack[d].i >= 1

C9_Witness ==
    /\ Searching
    /\ Len(candidate) = 2
    /\ Len(stack) = 3
    /\ Len(so_far) = 2
    /\ <<>> \in DOMAIN dict

(* C9: break_into_words terminates and its recursion depth never exceeds the *)
(* candidate length plus one: every recursive call is made on a strictly     *)
(* shorter remaining pattern, so so_far never holds more words than the      *)
(* candidate has characters, and every search started returns, the command   *)
(* running to its end.                                                       *)
C9_TerminatesDepthBounded == []DepthBounded /\ <>(pc = "done")


(* C10: when a call of break_into_words returns Ok, so_far is what it was    *)
(* when the call was entered; the pairs on so_far are those pushed by the    *)
(* calls still active, so the search of a candidate starts and ends with an  *)
(* empty stack.                                                              *)
C10_BalancedBacktracking ==
    /\ Searching =>
         /\ Top.pc = "ret" => so_far = Top.entry
         /\ stack[1].entry = <<>>
         /\ Len(so_far) = Len(stack) - 1
         /\ \A d \in 1..(Len(stack) - 1) :
               so_far[d] = stack[d].word_matches[stack[d].k]
    /\ (cmd = "permute" /\ pc = "perm") => so_far = <<>>

C10_Witness ==
    /\ SearchReturned
    /\ so_far = <<>>
    /\ Len(Recorded) >= 2
    /\ \E n \in 1..Len(Recorded) : Len(SplitWords(Recorded[n].words)) >= 2

====
